---- MODULE Spec2Model ----
(***************************************************************************)
(* Model of the games API of the catalog service (server/routes/games.py)  *)
(* with the Game model's validators (server/models/game.py, base.py).      *)
(*                                                                         *)
(* The persisted store is the set of committed rows.  Every handler runs   *)
(* in its own request-scoped session: it works on a session copy of the    *)
(* rows, and only db.session.commit() makes the copy the persisted store.  *)
(* Strings are sequences of characters so that strip() and len() are       *)
(* computed; JSON values carry their type.                                 *)
(***************************************************************************)
EXTENDS Integers, Sequences, FiniteSets, TLC

VARIABLES
    games,       \* persisted Game rows: id -> row
    publishers,  \* persisted Publisher rows: id -> row
    categories,  \* persisted Category rows: id -> row
    req,         \* the request being served, NoReq between requests
    resp,        \* the response to req
    pre,         \* the three tables as they were when req arrived
    session,     \* the Game rows as req's session sees them when it answers
    events,      \* the steps req's handler went through
    deleted,     \* the ids that DELETE has removed so far
    call,        \* a call of the Field Validator and what it returned
    txn          \* the requests that are served concurrently, one per worker

vars == <<games, publishers, categories, req, resp, pre, session, events,
          deleted, call, txn>>

----------------------------------------------------------------------------
(* JSON values *)

Null == [t |-> "null", s |-> <<>>, n |-> 0]
Str(s) == [t |-> "str", s |-> s, n |-> 0]
Num(n) == [t |-> "num", s |-> <<>>, n |-> n]

(* Python's str.strip(): leading and trailing whitespace removed *)
Whitespace == {" "}

RECURSIVE LStrip(_)
LStrip(s) ==
    IF s # <<>> /\ Head(s) \in Whitespace THEN LStrip(Tail(s)) ELSE s

RECURSIVE RStrip(_)
RStrip(s) ==
    IF s # <<>> /\ s[Len(s)] \in Whitespace
    THEN RStrip(SubSeq(s, 1, Len(s) - 1))
    ELSE s

Strip(s) == RStrip(LStrip(s))

----------------------------------------------------------------------------
(* Field Validator: BaseModel.validate_string_length and the Game hooks *)

TitleMinLength == 2
DescriptionMinLength == 10

NoError == [text |-> "", field |-> "", min |-> 0, fields |-> <<>>]
Error(text) == [text |-> text, field |-> "", min |-> 0, fields |-> <<>>]
ValueError(field_name, text, min_length) ==
    [text |-> text, field |-> field_name, min |-> min_length, fields |-> <<>>]

Valid(value) == [ok |-> TRUE, value |-> value, error |-> NoError]
Raise(error) == [ok |-> FALSE, value |-> Null, error |-> error]

(* Mutant: the length is taken of the value as given, not of its trimmed
   form *)
validate_string_length_untrimmed(field_name, value, min_length, allow_none) ==
    IF value.t = "null"
    THEN IF allow_none
         THEN Valid(value)
         ELSE Raise(ValueError(field_name, "cannot be empty", 0))
    ELSE IF value.t # "str"
    THEN Raise(ValueError(field_name, "must be a string", 0))
    ELSE IF Len(value.s) < min_length
    THEN Raise(ValueError(field_name, "must be at least", min_length))
    ELSE Valid(value)

(* Mutant: the validator hands back the trimmed string *)
validate_string_length_trimming(field_name, value, min_length, allow_none) ==
    IF value.t = "null"
    THEN IF allow_none
         THEN Valid(value)
         ELSE Raise(ValueError(field_name, "cannot be empty", 0))
    ELSE IF value.t # "str"
    THEN Raise(ValueError(field_name, "must be a string", 0))
    ELSE IF Len(Strip(value.s)) < min_length
    THEN Raise(ValueError(field_name, "must be at least", min_length))
    ELSE Valid(Str(Strip(value.s)))

validate_string_length(field_name, value, min_length, allow_none) ==
    IF value.t = "null"
    THEN IF allow_none
         THEN Valid(value)
         ELSE Raise(ValueError(field_name, "cannot be empty", 0))
    ELSE IF value.t # "str"
    THEN Raise(ValueError(field_name, "must be a string", 0))
    ELSE IF Len(Strip(value.s)) < min_length
    THEN Raise(ValueError(field_name, "must be at least", min_length))
    ELSE Valid(value)

(* Mutant: the title needs one character more *)
validate_name_longer(name) ==
    validate_string_length("Game title", name, TitleMinLength + 1, FALSE)

validate_name(name) ==
    validate_string_length("Game title", name, TitleMinLength, FALSE)

validate_description(description) ==
    IF description # Null
    THEN validate_string_length("Description", description,
                                DescriptionMinLength, TRUE)
    ELSE Valid(description)

----------------------------------------------------------------------------
(* Request payloads: a JSON object is a sequence of key/value members *)

Has(data, key) == \E i \in 1..Len(data) : data[i].k = key
Val(data, key) == data[CHOOSE i \in 1..Len(data) : data[i].k = key].v
GetOr(data, key) == IF Has(data, key) THEN Val(data, key) ELSE Null

required_fields == <<"title", "description", "category_id", "publisher_id">>

(* Mutant: only absent fields count as missing, a null is let through *)
missing_fields_absent_only(data) ==
    SelectSeq(required_fields, LAMBDA field : ~Has(data, field))

missing_fields(data) ==
    SelectSeq(required_fields,
              LAMBDA field : ~Has(data, field) \/ Val(data, field) = Null)

----------------------------------------------------------------------------
(* Entity store *)

(* db.session.get(Model, ident): the row with that primary key, if any *)
session_get(table, ident) == ident.t = "num" /\ ident.n \in DOMAIN table

(* nullable=False columns of Game, enforced by the store when it flushes *)
not_null_ok(game) ==
    /\ game.title # Null
    /\ game.description # Null
    /\ game.category_id # Null
    /\ game.publisher_id # Null

Max(S) == CHOOSE x \in S : \A y \in S : y <= x

(* Integer primary key of the SQLite store: one more than the largest id *)
next_id(gs) == IF DOMAIN gs = {} THEN 1 ELSE Max(DOMAIN gs) + 1

Put(gs, id, game) == [i \in DOMAIN gs \cup {id} |-> IF i = id THEN game ELSE gs[i]]
Remove(gs, id) == [i \in DOMAIN gs \ {id} |-> gs[i]]

----------------------------------------------------------------------------
(* Game Read-View Composer: Game.to_dict over the outer-joined base query *)

NoRelation == [id |-> 0, name |-> ""]

relation(table, ident) ==
    IF session_get(table, ident)
    THEN [id |-> ident.n, name |-> table[ident.n].name]
    ELSE NoRelation

NoView == [id |-> 0, title |-> Null, description |-> Null,
           publisher |-> NoRelation, category |-> NoRelation,
           starRating |-> Null]

(* Mutant: the view echoes the stored ids instead of the joined rows *)
to_dict_raw_ids(gs, ps, cs, id) ==
    [id |-> id,
     title |-> gs[id].title,
     description |-> gs[id].description,
     publisher |-> [id |-> gs[id].publisher_id.n, name |-> ""],
     category |-> [id |-> gs[id].category_id.n, name |-> ""],
     starRating |-> gs[id].star_rating]

to_dict(gs, ps, cs, id) ==
    [id |-> id,
     title |-> gs[id].title,
     description |-> gs[id].description,
     publisher |-> relation(ps, gs[id].publisher_id),
     category |-> relation(cs, gs[id].category_id),
     starRating |-> gs[id].star_rating]

----------------------------------------------------------------------------
(* Responses and handler outcomes *)

NoResp == [op |-> "none", id |-> 0, status |-> 0, error |-> NoError,
           message |-> "", view |-> NoView,
           page |-> 0, per_page |-> 0, total |-> 0, total_pages |-> 0,
           data |-> <<>>]

(* jsonify({"error": ...}), status *)
jsonify_error(op, id, status, error) ==
    [NoResp EXCEPT !.op = op, !.id = id, !.status = status, !.error = error]

(* jsonify(game.to_dict()), status *)
jsonify_view(op, id, status, view) ==
    [NoResp EXCEPT !.op = op, !.id = id, !.status = status, !.view = view]

(* What a handler leaves behind: the persisted store, the rows as its
   session sees them when it answers (uncommitted changes included), the
   response, and the steps it went through. *)
Outcome(store, sess, response, steps) ==
    [games |-> store, session |-> sess, resp |-> response,
     events |-> steps]

(* Mutant: what the session holds is committed before the error is
   returned *)
respond_committing(store, sess, response, steps) ==
    Outcome(sess, sess, response, steps)

(* return jsonify(...) with nothing committed: the store keeps its rows,
   the session keeps what the handler had assigned so far *)
respond(store, sess, response, steps) ==
    Outcome(store, sess, response, steps)

(* Mutant: the except branch answers without calling rollback *)
rollback_missing(store, response, steps) ==
    Outcome(store, store, response, steps)

(* db.session.rollback(), then return jsonify({"error": ...}) *)
rollback(store, response, steps) ==
    Outcome(store, store, response, steps \o <<"rollback">>)

(* db.session.commit() went through: the session's rows are the store's *)
commit(sess, response, steps) ==
    Outcome(sess, sess, response, steps \o <<"commit">>)

----------------------------------------------------------------------------
(* POST /api/games *)

NoGame == [title |-> Null, description |-> Null, star_rating |-> Null,
           category_id |-> Null, publisher_id |-> Null]

(* Game(title=, description=, publisher_id=, category_id=, star_rating=):
   the attributes are set in keyword order, the hooks of title and
   description run as they are set *)
Game(title, description, publisher_id, category_id, star_rating) ==
    LET t == validate_name(title)
        d == validate_description(description)
    IN  IF ~t.ok
        THEN [ok |-> FALSE, error |-> t.error, game |-> NoGame,
              events |-> <<"validate">>]
        ELSE IF ~d.ok
        THEN [ok |-> FALSE, error |-> d.error, game |-> NoGame,
              events |-> <<"validate", "validate">>]
        ELSE [ok |-> TRUE, error |-> NoError,
              game |-> [title |-> t.value, description |-> d.value,
                        star_rating |-> star_rating,
                        category_id |-> category_id,
                        publisher_id |-> publisher_id],
              events |-> <<"validate", "validate">>]

create_game(gs, ps, cs, body) ==
    IF body.kind = "nocontenttype"
    THEN respond(gs, gs, jsonify_error("create", 0, 400,
                 Error("Content-Type must be application/json")), <<>>)
    ELSE IF body.kind = "invalid"
    THEN respond(gs, gs, jsonify_error("create", 0, 400,
                 Error("Invalid JSON format")), <<>>)
    ELSE IF body.data = <<>>
    THEN respond(gs, gs, jsonify_error("create", 0, 400,
                 Error("Request body cannot be empty")), <<>>)
    ELSE
    LET data == body.data
        missing == missing_fields(data)
        new == Game(Val(data, "title"), Val(data, "description"),
                    Val(data, "publisher_id"), Val(data, "category_id"),
                    GetOr(data, "star_rating"))
        id == next_id(gs)
        added == Put(gs, id, new.game)
        resolved == <<"required", "resolve", "resolve">>
    IN  IF missing # <<>>
        THEN respond(gs, gs, jsonify_error("create", 0, 400,
                 [Error("Missing required fields") EXCEPT !.fields = missing]),
                 <<"required">>)
        ELSE IF ~session_get(ps, Val(data, "publisher_id"))
        THEN respond(gs, gs, jsonify_error("create", 0, 404,
                 Error("Publisher not found")), <<"required", "resolve">>)
        ELSE IF ~session_get(cs, Val(data, "category_id"))
        THEN respond(gs, gs, jsonify_error("create", 0, 404,
                 Error("Category not found")), resolved)
        ELSE IF ~new.ok
        THEN rollback(gs, jsonify_error("create", 0, 400, new.error),
                      resolved \o new.events)
        ELSE IF ~not_null_ok(new.game)
        THEN rollback(gs, jsonify_error("create", 0, 400,
                      Error("Database constraint violation")),
                      resolved \o new.events \o <<"add", "commit">>)
        ELSE commit(added,
                    jsonify_view("create", id, 201, to_dict(added, ps, cs, id)),
                    resolved \o new.events \o <<"add">>)

----------------------------------------------------------------------------
(* PUT /api/games/<id> *)

(* Mutant: the publisher is assigned without being looked up *)
apply_publisher_unchecked(c, ps, data) ==
    IF c.done \/ ~Has(data, "publisher_id") THEN c
    ELSE [c EXCEPT !.game.publisher_id = Val(data, "publisher_id"),
                   !.events = @ \o <<"assign">>]

(* if 'publisher_id' in data: look the publisher up, then assign *)
apply_publisher(c, ps, data) ==
    IF c.done \/ ~Has(data, "publisher_id") THEN c
    ELSE IF ~session_get(ps, Val(data, "publisher_id"))
    THEN [c EXCEPT !.done = TRUE, !.status = 404,
                   !.error = Error("Publisher not found"),
                   !.events = @ \o <<"resolve">>]
    ELSE [c EXCEPT !.game.publisher_id = Val(data, "publisher_id"),
                   !.events = @ \o <<"resolve", "assign">>]

(* Mutant: the category is assigned without being looked up *)
apply_category_unchecked(c, cs, data) ==
    IF c.done \/ ~Has(data, "category_id") THEN c
    ELSE [c EXCEPT !.game.category_id = Val(data, "category_id"),
                   !.events = @ \o <<"assign">>]

(* if 'category_id' in data: look the category up, then assign *)
apply_category(c, cs, data) ==
    IF c.done \/ ~Has(data, "category_id") THEN c
    ELSE IF ~session_get(cs, Val(data, "category_id"))
    THEN [c EXCEPT !.done = TRUE, !.status = 404,
                   !.error = Error("Category not found"),
                   !.events = @ \o <<"resolve">>]
    ELSE [c EXCEPT !.game.category_id = Val(data, "category_id"),
                   !.events = @ \o <<"resolve", "assign">>]

(* if 'title' in data: game.title = data['title'], through validate_name *)
apply_title(c, data) ==
    IF c.done \/ ~Has(data, "title") THEN c
    ELSE LET r == validate_name(Val(data, "title"))
         IN  IF ~r.ok
             THEN [c EXCEPT !.done = TRUE, !.status = 400, !.raised = TRUE,
                            !.error = r.error,
                            !.events = @ \o <<"validate">>]
             ELSE [c EXCEPT !.game.title = r.value,
                            !.events = @ \o <<"validate", "assign">>]

(* if 'description' in data: game.description = data['description'],
   through validate_description *)
apply_description(c, data) ==
    IF c.done \/ ~Has(data, "description") THEN c
    ELSE LET r == validate_description(Val(data, "description"))
         IN  IF ~r.ok
             THEN [c EXCEPT !.done = TRUE, !.status = 400, !.raised = TRUE,
                            !.error = r.error,
                            !.events = @ \o <<"validate">>]
             ELSE [c EXCEPT !.game.description = r.value,
                            !.events = @ \o <<"validate", "assign">>]

(* Mutant: game.star_rating = data.get('star_rating'), payload or not *)
apply_star_rating_always(c, data) ==
    IF c.done THEN c
    ELSE [c EXCEPT !.game.star_rating = GetOr(data, "star_rating"),
                   !.events = @ \o <<"assign">>]

(* if 'star_rating' in data: game.star_rating = data['star_rating'] *)
apply_star_rating(c, data) ==
    IF c.done \/ ~Has(data, "star_rating") THEN c
    ELSE [c EXCEPT !.game.star_rating = Val(data, "star_rating"),
                   !.events = @ \o <<"assign">>]

(* update_game from the parsing of the payload on: the game exists *)
update_existing_game(gs, ps, cs, id, body) ==
    IF body.kind = "nocontenttype"
    THEN respond(gs, gs, jsonify_error("update", id, 400,
                 Error("Content-Type must be application/json")), <<>>)
    ELSE IF body.kind = "invalid"
    THEN respond(gs, gs, jsonify_error("update", id, 400,
                 Error("Invalid JSON format")), <<>>)
    ELSE IF body.data = <<>>
    THEN respond(gs, gs, jsonify_error("update", id, 400,
                 Error("Request body cannot be empty")), <<>>)
    ELSE
    LET data == body.data
        c0 == [game |-> gs[id], done |-> FALSE, raised |-> FALSE,
               status |-> 0, error |-> NoError, events |-> <<>>]
        c1 == apply_publisher(c0, ps, data)
        c2 == apply_category(c1, cs, data)
        c3 == apply_title(c2, data)
        c4 == apply_description(c3, data)
        c5 == apply_star_rating(c4, data)
        updated == Put(gs, id, c5.game)
    IN  IF c5.raised
        THEN rollback(gs, jsonify_error("update", id, c5.status, c5.error),
                      c5.events)
        ELSE IF c5.done
        THEN respond(gs, updated,
                     jsonify_error("update", id, c5.status, c5.error),
                     c5.events)
        ELSE IF ~not_null_ok(c5.game)
        THEN rollback(gs, jsonify_error("update", id, 400,
                      Error("Database constraint violation")),
                      c5.events \o <<"commit">>)
        ELSE commit(updated,
                    jsonify_view("update", id, 200,
                                 to_dict(updated, ps, cs, id)),
                    c5.events)

(* Mutant: the payload is parsed before the game is looked up *)
update_game_parsing_first(gs, ps, cs, id, body) ==
    IF body.kind = "nocontenttype"
    THEN respond(gs, gs, jsonify_error("update", id, 400,
                 Error("Content-Type must be application/json")), <<>>)
    ELSE IF body.kind = "invalid"
    THEN respond(gs, gs, jsonify_error("update", id, 400,
                 Error("Invalid JSON format")), <<>>)
    ELSE IF body.data = <<>>
    THEN respond(gs, gs, jsonify_error("update", id, 400,
                 Error("Request body cannot be empty")), <<>>)
    ELSE IF id \notin DOMAIN gs
    THEN respond(gs, gs, jsonify_error("update", id, 404,
                 Error("Game not found")), <<>>)
    ELSE update_existing_game(gs, ps, cs, id, body)

update_game(gs, ps, cs, id, body) ==
    IF id \notin DOMAIN gs
    THEN respond(gs, gs, jsonify_error("update", id, 404,
                 Error("Game not found")), <<>>)
    ELSE update_existing_game(gs, ps, cs, id, body)

----------------------------------------------------------------------------
(* DELETE /api/games/<id> *)

(* Mutant: the row is marked for deletion but the deletion never reaches
   the store *)
delete_game_uncommitted(gs, id) ==
    IF id \notin DOMAIN gs
    THEN respond(gs, gs, jsonify_error("delete", id, 404,
                 Error("Game not found")), <<>>)
    ELSE Outcome(gs, Remove(gs, id),
                 [NoResp EXCEPT !.op = "delete", !.id = id, !.status = 200,
                                !.message = "Game deleted successfully"],
                 <<"delete">>)

(* Mutant: the deletion takes the publisher's other games along *)
delete_game_cascading(gs, id) ==
    IF id \notin DOMAIN gs
    THEN respond(gs, gs, jsonify_error("delete", id, 404,
                 Error("Game not found")), <<>>)
    ELSE LET kept == {i \in DOMAIN gs :
                         gs[i].publisher_id # gs[id].publisher_id}
         IN  commit([i \in kept |-> gs[i]],
                    [NoResp EXCEPT !.op = "delete", !.id = id,
                                   !.status = 200,
                                   !.message = "Game deleted successfully"],
                    <<"delete">>)

delete_game(gs, id) ==
    IF id \notin DOMAIN gs
    THEN respond(gs, gs, jsonify_error("delete", id, 404,
                 Error("Game not found")), <<>>)
    ELSE commit(Remove(gs, id),
                [NoResp EXCEPT !.op = "delete", !.id = id, !.status = 200,
                               !.message = "Game deleted successfully"],
                <<"delete">>)

----------------------------------------------------------------------------
(* GET /api/games/<id> and GET /api/games *)

get_game(gs, ps, cs, id) ==
    IF id \notin DOMAIN gs
    THEN jsonify_error("get", id, 404, Error("Game not found"))
    ELSE jsonify_view("get", id, 200, to_dict(gs, ps, cs, id))

Min(S) == CHOOSE x \in S : \A y \in S : x <= y

RECURSIVE Ascending(_)
Ascending(S) ==
    IF S = {} THEN <<>> ELSE <<Min(S)>> \o Ascending(S \ {Min(S)})

(* The rows of the joined base query, in primary-key order *)
get_games_base_query(gs) == Ascending(DOMAIN gs)

DefaultPage == 1
DefaultPerPage == 20
MaxPerPage == 100

(* request.args.get(name, default, type=int): the default when the
   parameter is absent or is not the text of an integer *)
request_arg(arg, default) == IF arg.t = "num" THEN arg.n ELSE default

effective_page(page) == IF page < 1 THEN DefaultPage ELSE page

(* Mutant: the upper limit itself is refused *)
effective_per_page_exclusive(per_page) ==
    IF per_page < 1 \/ per_page >= MaxPerPage THEN DefaultPerPage ELSE per_page

effective_per_page(per_page) ==
    IF per_page < 1 \/ per_page > MaxPerPage THEN DefaultPerPage ELSE per_page

(* Mutant: the window starts one row early, at the last row of the page
   before *)
offset_limit_overlapping(rows, offset, limit) ==
    IF offset >= Len(rows) THEN <<>>
    ELSE SubSeq(rows, IF offset = 0 THEN 1 ELSE offset,
                IF offset + limit > Len(rows) THEN Len(rows)
                ELSE offset + limit)

(* .offset(n).limit(m).all() *)
offset_limit(rows, offset, limit) ==
    IF offset >= Len(rows) THEN <<>>
    ELSE SubSeq(rows, offset + 1,
                IF offset + limit > Len(rows) THEN Len(rows)
                ELSE offset + limit)

(* Mutant: the page count is rounded down instead of up *)
get_games_floor_pages(gs, ps, cs, page_arg, per_page_arg) ==
    LET page == effective_page(request_arg(page_arg, DefaultPage))
        per_page ==
            effective_per_page(request_arg(per_page_arg, DefaultPerPage))
        base_query == get_games_base_query(gs)
        total == Len(base_query)
        games_query == offset_limit(base_query, (page - 1) * per_page,
                                    per_page)
        games_list == [i \in 1..Len(games_query) |->
                          to_dict(gs, ps, cs, games_query[i])]
        total_pages == total \div per_page
    IN  [NoResp EXCEPT !.op = "list", !.status = 200,
                       !.data = games_list, !.page = page,
                       !.per_page = per_page, !.total = total,
                       !.total_pages = total_pages]

get_games(gs, ps, cs, page_arg, per_page_arg) ==
    LET page == effective_page(request_arg(page_arg, DefaultPage))
        per_page ==
            effective_per_page(request_arg(per_page_arg, DefaultPerPage))
        base_query == get_games_base_query(gs)
        total == Len(base_query)
        games_query == offset_limit(base_query, (page - 1) * per_page,
                                    per_page)
        games_list == [i \in 1..Len(games_query) |->
                          to_dict(gs, ps, cs, games_query[i])]
        total_pages == (total + per_page - 1) \div per_page
    IN  [NoResp EXCEPT !.op = "list", !.status = 200,
                       !.data = games_list, !.page = page,
                       !.per_page = per_page, !.total = total,
                       !.total_pages = total_pages]

----------------------------------------------------------------------------
(* Requests: the inputs the handlers are driven with *)

MaxId == 2

ShortTitle == Str(<<"A">>)
MinTitle == Str(<<"A", "b">>)
PaddedTitle == Str(<<" ", "A", " ">>)
SeedTitle == Str(<<"G", "o">>)

MinDescription == Str(<<"t", "e", "n", " ", "l", "e", "t", "t", "e", "r">>)
PaddedDescription ==
    Str(<<" ", "n", "i", "n", "e", " ", "c", "h", "a", "r", " ">>)
SeedDescription ==
    Str(<<"N", "a", "v", "i", "g", "a", "t", "e", " ", "i", "t">>)

Titles == {ShortTitle, MinTitle, PaddedTitle, Null}
Descriptions == {MinDescription, PaddedDescription, Null}
Ratings == {Num(45), Null}
PublisherIds == {Num(1), Num(9), Null}
CategoryIds == {Num(1), Num(9)}

Member(key, values) == {<<>>} \cup {<<[k |-> key, v |-> x]>> : x \in values}

Payloads ==
    {p \o c \o t \o d \o r :
        t \in Member("title", Titles),
        d \in Member("description", Descriptions),
        p \in Member("publisher_id", PublisherIds),
        c \in Member("category_id", CategoryIds),
        r \in Member("star_rating", Ratings)}

Bodies ==
    {[kind |-> "nocontenttype", data |-> <<>>],
     [kind |-> "invalid", data |-> <<>>]}
    \cup {[kind |-> "json", data |-> p] : p \in Payloads}

GameIds == 1..MaxId
Pages == {Null, Str(<<"x">>), Num(-1), Num(0), Num(1), Num(2), Num(3)}
PerPages == {Null, Num(-1), Num(0), Num(1), Num(2), Num(20), Num(100),
             Num(101)}

NoBody == [kind |-> "none", data |-> <<>>]
NoReq == [op |-> "none", id |-> 0, body |-> NoBody,
          page |-> Null, per_page |-> Null]
Request(op, id, body) == [NoReq EXCEPT !.op = op, !.id = id, !.body = body]

(* A call validate_string_length(field_name, value, min_length, allow_none)
   before it has returned *)
NoCall == [field_name |-> "", value |-> Null, min_length |-> 0,
           allow_none |-> FALSE, done |-> FALSE, result |-> Valid(Null)]

(* The workers that serve requests at the same time *)
Procs == {1, 2}

(* A worker with no request: pc is where its handler stands, loaded the row
   as db.session.get returned it, game the row as the handler's session
   holds it, own the view of the row as this request committed it *)
NoTxn == [op |-> "none", id |-> 0, body |-> NoBody, pc |-> "idle",
          loaded |-> NoGame, game |-> NoGame, own |-> NoView,
          resp |-> NoResp]

NoTxns == [p \in Procs |-> NoTxn]

----------------------------------------------------------------------------
(* The state machine: requests are served one at a time *)

Init ==
    /\ publishers = (1 :> [name |-> "DevGames Inc"]
                     @@ 2 :> [name |-> "Scrum Masters"])
    /\ categories = (1 :> [name |-> "Strategy"]
                     @@ 2 :> [name |-> "Card Game"])
    /\ games = (1 :> [title |-> SeedTitle, description |-> SeedDescription,
                      star_rating |-> Num(45),
                      category_id |-> Num(2), publisher_id |-> Num(2)])
    /\ req = NoReq
    /\ resp = NoResp
    /\ pre = [games |-> games, publishers |-> publishers,
              categories |-> categories]
    /\ session = games
    /\ events = <<>>
    /\ deleted = {}
    /\ call = NoCall
    /\ txn = NoTxns

Idle == req = NoReq

(* Answer request r with the outcome of its handler *)
Serve(r, out) ==
    /\ req' = r
    /\ pre' = [games |-> games, publishers |-> publishers,
               categories |-> categories]
    /\ games' = out.games
    /\ session' = out.session
    /\ resp' = out.resp
    /\ events' = out.events
    /\ UNCHANGED <<publishers, categories, call, txn>>

CreateWith(bodies) ==
    /\ Idle
    /\ next_id(games) <= MaxId
    /\ \E body \in bodies :
        Serve(Request("create", 0, body),
              create_game(games, publishers, categories, body))

UpdateWith(bodies) ==
    /\ Idle
    /\ \E id \in GameIds, body \in bodies :
        Serve(Request("update", id, body),
              update_game(games, publishers, categories, id, body))

DeleteWith(record) ==
    /\ Idle
    /\ \E id \in GameIds :
        LET out == delete_game(games, id)
        IN  /\ Serve(Request("delete", id, NoBody), out)
            /\ deleted' = IF record /\ out.resp.status = 200
                          THEN deleted \cup {id} ELSE deleted

Create == CreateWith(Bodies) /\ UNCHANGED deleted

Update == UpdateWith(Bodies) /\ UNCHANGED deleted

Delete == DeleteWith(FALSE)

Get ==
    /\ Idle
    /\ \E id \in GameIds :
        Serve(Request("get", id, NoBody),
              Outcome(games, games,
                      get_game(games, publishers, categories, id), <<>>))
    /\ UNCHANGED deleted

List ==
    /\ Idle
    /\ \E page \in Pages, per_page \in PerPages :
        Serve([NoReq EXCEPT !.op = "list", !.page = page,
                            !.per_page = per_page],
              Outcome(games, games,
                      get_games(games, publishers, categories,
                                page, per_page), <<>>))
    /\ UNCHANGED deleted

(* End of the request: the response is out and the request's session is
   removed, so whatever it had not committed is discarded. *)
teardown_session ==
    /\ ~Idle
    /\ req' = NoReq
    /\ resp' = NoResp
    /\ pre' = [games |-> games, publishers |-> publishers,
               categories |-> categories]
    /\ session' = games
    /\ events' = <<>>
    /\ UNCHANGED <<games, publishers, categories, deleted, call, txn>>

Next == Create \/ Update \/ Delete \/ Get \/ List \/ teardown_session

Spec == Init /\ [][Next]_vars

(* The same machine with the history of deletions recorded, driven with a
   few bodies: a complete valid payload, a partial one and a rejected one. *)
HistoryBodies ==
    {[kind |-> "json",
      data |-> <<[k |-> "publisher_id", v |-> Num(1)],
                 [k |-> "category_id", v |-> Num(1)],
                 [k |-> "title", v |-> MinTitle],
                 [k |-> "description", v |-> MinDescription]>>],
     [kind |-> "json", data |-> <<[k |-> "star_rating", v |-> Null]>>],
     [kind |-> "json", data |-> <<[k |-> "title", v |-> PaddedTitle]>>]}

CreateRecorded == CreateWith(HistoryBodies) /\ UNCHANGED deleted

UpdateRecorded == UpdateWith(HistoryBodies) /\ UNCHANGED deleted

DeleteRecorded == DeleteWith(TRUE)

NextHistory ==
    \/ CreateRecorded \/ UpdateRecorded \/ DeleteRecorded
    \/ Get \/ List \/ teardown_session

SpecHistory == Init /\ [][NextHistory]_vars

(* The listing served over stores of every size up to MaxGames: the ids
   that creations and deletions leave behind, each with a valid row *)
MaxGames == 4

StoredGame(id) ==
    [title |-> SeedTitle, description |-> SeedDescription,
     star_rating |-> Num(45),
     category_id |-> Num(1 + (id % 2)), publisher_id |-> Num(2 - (id % 2))]

Stores == {[id \in ids |-> StoredGame(id)] : ids \in SUBSET (1..MaxGames)}

ListPages == {Null} \cup {Num(n) : n \in 0..(MaxGames + 1)}
ListPerPages == {Null, Num(0), Num(1), Num(2), Num(3), Num(100), Num(101)}

InitList ==
    /\ publishers = (1 :> [name |-> "DevGames Inc"]
                     @@ 2 :> [name |-> "Scrum Masters"])
    /\ categories = (1 :> [name |-> "Strategy"]
                     @@ 2 :> [name |-> "Card Game"])
    /\ games \in Stores
    /\ req = NoReq
    /\ resp = NoResp
    /\ pre = [games |-> games, publishers |-> publishers,
              categories |-> categories]
    /\ session = games
    /\ events = <<>>
    /\ deleted = {}
    /\ call = NoCall
    /\ txn = NoTxns

ListStored ==
    /\ Idle
    /\ \E page \in ListPages, per_page \in ListPerPages :
        Serve([NoReq EXCEPT !.op = "list", !.page = page,
                            !.per_page = per_page],
              Outcome(games, games,
                      get_games(games, publishers, categories,
                                page, per_page), <<>>))
    /\ UNCHANGED deleted

NextList == ListStored \/ teardown_session

SpecList == InitList /\ [][NextList]_vars

(* The Field Validator called on its own: every value of a few shapes with
   every minimum length up to MaxLen *)
MaxLen == 3

Chars == {" ", "a"}

Values ==
    {Null, Num(7)} \cup {Str(s) : s \in UNION {[1..k -> Chars] : k \in 0..MaxLen}}

Calls ==
    {[NoCall EXCEPT !.field_name = f, !.value = v, !.min_length = m,
                    !.allow_none = a] :
        f \in {"Game title", "Description"}, v \in Values,
        m \in 0..MaxLen, a \in BOOLEAN}

InitValidator ==
    /\ publishers = <<>>
    /\ categories = <<>>
    /\ games = <<>>
    /\ req = NoReq
    /\ resp = NoResp
    /\ pre = [games |-> games, publishers |-> publishers,
              categories |-> categories]
    /\ session = games
    /\ events = <<>>
    /\ deleted = {}
    /\ call \in Calls
    /\ txn = NoTxns

validate ==
    /\ ~call.done
    /\ call' = [call EXCEPT
                   !.done = TRUE,
                   !.result = validate_string_length(call.field_name,
                                  call.value, call.min_length,
                                  call.allow_none)]
    /\ UNCHANGED <<games, publishers, categories, req, resp, pre, session,
                   events, deleted, txn>>

NextValidator == validate

SpecValidator == InitValidator /\ [][NextValidator]_vars

----------------------------------------------------------------------------
(* Requests served at the same time by two workers.  Each worker has its
   own session; the store is shared.  A handler touches the store three
   times: when it loads (db.session.get), when it commits (the flush writes
   and the transaction ends), and when it reads the row again for its
   answer.  Another worker's commit can fall between any two of them. *)

Columns == DOMAIN NoGame

(* The assignments of update_game to the loaded row, lookups included *)
assign_fields(game, ps, cs, data) ==
    LET c0 == [game |-> game, done |-> FALSE, raised |-> FALSE,
               status |-> 0, error |-> NoError, events |-> <<>>]
        c1 == apply_publisher(c0, ps, data)
        c2 == apply_category(c1, cs, data)
        c3 == apply_title(c2, data)
        c4 == apply_description(c3, data)
    IN  apply_star_rating(c4, data)

(* The flush of a modified row: UPDATE games SET <the columns whose value
   differs from the loaded one> WHERE id = ... *)
modified_columns(loaded, game) == {f \in Columns : game[f] # loaded[f]}

flush_update(gs, id, loaded, game) ==
    [i \in DOMAIN gs |->
        IF i = id
        THEN [f \in Columns |->
                 IF f \in modified_columns(loaded, game)
                 THEN game[f] ELSE gs[i][f]]
        ELSE gs[i]]

InternalServerError(op, id) ==
    jsonify_error(op, id, 500, Error("Internal server error"))

Finished(t, response) == [t EXCEPT !.pc = "done", !.resp = response]

(* The handler up to its commit *)
begin_update(gs, ps, cs, t) ==
    IF t.id \notin DOMAIN gs
    THEN Finished(t, jsonify_error("update", t.id, 404,
                                   Error("Game not found")))
    ELSE IF t.body.kind = "nocontenttype"
    THEN Finished(t, jsonify_error("update", t.id, 400,
                     Error("Content-Type must be application/json")))
    ELSE IF t.body.kind = "invalid"
    THEN Finished(t, jsonify_error("update", t.id, 400,
                                   Error("Invalid JSON format")))
    ELSE IF t.body.data = <<>>
    THEN Finished(t, jsonify_error("update", t.id, 400,
                                   Error("Request body cannot be empty")))
    ELSE LET c == assign_fields(gs[t.id], ps, cs, t.body.data)
         IN  IF c.done
             THEN Finished(t, jsonify_error("update", t.id, c.status,
                                            c.error))
             ELSE [t EXCEPT !.pc = "assigned", !.loaded = gs[t.id],
                            !.game = c.game]

begin_delete(gs, t) ==
    IF t.id \notin DOMAIN gs
    THEN Finished(t, jsonify_error("delete", t.id, 404,
                                   Error("Game not found")))
    ELSE [t EXCEPT !.pc = "assigned", !.loaded = gs[t.id]]

(* Everything create_game does before db.session.add reads the payload and
   the Publisher and Category rows only *)
begin_create(gs, ps, cs, t) ==
    LET out == create_game(gs, ps, cs, t.body)
        data == t.body.data
    IN  IF out.resp.status # 201
        THEN Finished(t, out.resp)
        ELSE [t EXCEPT !.pc = "assigned",
                       !.game = Game(Val(data, "title"),
                                     Val(data, "description"),
                                     Val(data, "publisher_id"),
                                     Val(data, "category_id"),
                                     GetOr(data, "star_rating")).game]

ConcurrentBodies ==
    {[kind |-> "json",
      data |-> <<[k |-> "publisher_id", v |-> Num(2)],
                 [k |-> "title", v |-> MinTitle]>>],
     [kind |-> "json",
      data |-> <<[k |-> "publisher_id", v |-> Num(1)],
                 [k |-> "title", v |-> SeedTitle]>>],
     [kind |-> "json", data |-> <<[k |-> "title", v |-> ShortTitle]>>],
     [kind |-> "json", data |-> <<[k |-> "category_id", v |-> Num(9)]>>],
     [kind |-> "json", data |-> <<[k |-> "description", v |-> Null]>>]}

CreateBodies ==
    {[kind |-> "json",
      data |-> <<[k |-> "publisher_id", v |-> Num(1)],
                 [k |-> "category_id", v |-> Num(1)],
                 [k |-> "title", v |-> MinTitle],
                 [k |-> "description", v |-> MinDescription]>>]}

ConcurrentRequests ==
    {[NoTxn EXCEPT !.op = "update", !.id = id, !.body = body] :
        id \in GameIds, body \in ConcurrentBodies}
    \cup {[NoTxn EXCEPT !.op = "delete", !.id = id] : id \in GameIds}
    \cup {[NoTxn EXCEPT !.op = "create", !.body = body] :
            body \in CreateBodies}

(* Worker p takes a request and runs its handler up to the commit *)
begin(p) ==
    /\ txn[p].pc = "idle"
    /\ \E t \in ConcurrentRequests :
        txn' = [txn EXCEPT ![p] =
                   CASE t.op = "update" ->
                            begin_update(games, publishers, categories, t)
                     [] t.op = "delete" -> begin_delete(games, t)
                     [] OTHER ->
                            begin_create(games, publishers, categories, t)]
    /\ UNCHANGED <<games, publishers, categories, req, resp, pre, session,
                   events, deleted, call>>

(* db.session.commit() of an Update: no statement when no column is
   modified; an UPDATE that matches no row raises StaleDataError, a NULL in
   a NOT NULL column IntegrityError *)
commit_update(p) ==
    LET t == txn[p]
    IN  /\ t.pc = "assigned" /\ t.op = "update"
        /\ IF modified_columns(t.loaded, t.game) = {}
           THEN /\ txn' = [txn EXCEPT ![p].pc = "committed"]
                /\ UNCHANGED games
           ELSE IF t.id \notin DOMAIN games
           THEN /\ txn' = [txn EXCEPT ![p] =
                              Finished(t, InternalServerError("update", t.id))]
                /\ UNCHANGED games
           ELSE IF ~not_null_ok(t.game)
           THEN /\ txn' = [txn EXCEPT ![p] =
                              Finished(t, jsonify_error("update", t.id, 400,
                                   Error("Database constraint violation")))]
                /\ UNCHANGED games
           ELSE /\ games' = flush_update(games, t.id, t.loaded, t.game)
                /\ txn' = [txn EXCEPT
                              ![p].pc = "committed",
                              ![p].own = to_dict(games', publishers,
                                                 categories, t.id)]
        /\ UNCHANGED <<publishers, categories, req, resp, pre, session,
                       events, deleted, call>>

(* db.session.add(game); db.session.commit(): the INSERT numbers the row *)
commit_create(p) ==
    LET t == txn[p]
        id == next_id(games)
    IN  /\ t.pc = "assigned" /\ t.op = "create"
        /\ games' = Put(games, id, t.game)
        /\ txn' = [txn EXCEPT
                      ![p].pc = "committed", ![p].id = id,
                      ![p].own = to_dict(games', publishers, categories, id)]
        /\ UNCHANGED <<publishers, categories, req, resp, pre, session,
                       events, deleted, call>>

(* db.session.delete(game); db.session.commit(): a DELETE that matches no
   row is only warned about; the handler answers 200 *)
commit_delete(p) ==
    LET t == txn[p]
    IN  /\ t.pc = "assigned" /\ t.op = "delete"
        /\ games' = IF t.id \in DOMAIN games THEN Remove(games, t.id)
                    ELSE games
        /\ txn' = [txn EXCEPT ![p] =
                      Finished(t, [NoResp EXCEPT
                                      !.op = "delete", !.id = t.id,
                                      !.status = 200,
                                      !.message = "Game deleted successfully"])]
        /\ UNCHANGED <<publishers, categories, req, resp, pre, session,
                       events, deleted, call>>

(* get_games_base_query().filter(Game.id == id).first() after the commit:
   the row as the store holds it now; when it is gone the handler fails on
   the missing row and its except branch answers 500 *)
reread(p) ==
    LET t == txn[p]
    IN  /\ t.pc = "committed"
        /\ txn' = [txn EXCEPT ![p] =
                      IF t.id \notin DOMAIN games
                      THEN Finished(t, InternalServerError(t.op, t.id))
                      ELSE Finished(t, jsonify_view(t.op, t.id,
                               IF t.op = "create" THEN 201 ELSE 200,
                               to_dict(games, publishers, categories, t.id)))]
        /\ UNCHANGED <<games, publishers, categories, req, resp, pre,
                       session, events, deleted, call>>

NextConcurrent ==
    \E p \in Procs :
        \/ begin(p)
        \/ commit_update(p)
        \/ commit_create(p)
        \/ commit_delete(p)
        \/ reread(p)

SpecConcurrent == Init /\ [][NextConcurrent]_vars

----------------------------------------------------------------------------
(* Properties *)

Data == req.body.data
JsonBody == req.body.kind = "json" /\ Data # <<>>
Mutation == req.op \in {"create", "update", "delete"}
Failed == resp.status \in {400, 404, 500}
Exists(table, ident) == ident.t = "num" /\ ident.n \in DOMAIN table
TrimmedLen(value) == Len(Strip(value.s))
UpdatableFields ==
    {"title", "description", "star_rating", "publisher_id", "category_id"}

(* C1: after any sequence of Create, Update and Delete requests, every
   persisted Game's publisher_id denotes an existing Publisher row and its
   category_id denotes an existing Category row. *)
C1_ReferencesExist ==
    \A id \in DOMAIN games :
        /\ Exists(publishers, games[id].publisher_id)
        /\ Exists(categories, games[id].category_id)

(* An Update has moved a game to another publisher and another category. *)
C1_Witness ==
    /\ req.op = "update" /\ resp.status = 200
    /\ games[req.id].publisher_id # pre.games[req.id].publisher_id
    /\ games[req.id].category_id # pre.games[req.id].category_id

(* C2: a Create, Update or Delete answered with 400, 404 or 500 leaves the
   persisted store exactly as it was; an Update of an existing game whose
   payload holds an existing publisher_id and a nonexistent category_id is
   answered 'Category not found' and the game keeps its publisher_id. *)
C2_PartialUpdate ==
    /\ req.op = "update" /\ req.id \in DOMAIN pre.games /\ JsonBody
    /\ Has(Data, "publisher_id") /\ Has(Data, "category_id")
    /\ Exists(publishers, Val(Data, "publisher_id"))
    /\ ~Exists(categories, Val(Data, "category_id"))

C2_FailureLeavesStore ==
    /\ (Mutation /\ Failed) =>
          /\ games = pre.games
          /\ publishers = pre.publishers
          /\ categories = pre.categories
    /\ C2_PartialUpdate =>
          /\ resp.status = 404
          /\ resp.error = Error("Category not found")
          /\ games[req.id].publisher_id = pre.games[req.id].publisher_id

(* The partial Update had already given the session's game the new
   publisher when the category lookup failed. *)
C2_Witness ==
    /\ C2_PartialUpdate
    /\ session[req.id].publisher_id # pre.games[req.id].publisher_id
    /\ games = pre.games

(* C3: a successful Update(id, payload) sets exactly the fields of game id
   that the payload holds, each to the supplied value; the other fields,
   the other games, the publishers and the categories are unchanged. *)
C3_UpdateFrame ==
    (req.op = "update" /\ resp.status = 200) =>
        /\ DOMAIN games = DOMAIN pre.games
        /\ \A f \in UpdatableFields :
              games[req.id][f] =
                  IF Has(Data, f) THEN Val(Data, f) ELSE pre.games[req.id][f]
        /\ \A other \in DOMAIN games \ {req.id} :
              games[other] = pre.games[other]
        /\ publishers = pre.publishers
        /\ categories = pre.categories

(* A successful Update changed the title, its payload held no
   star_rating, and there is another game in the store. *)
C3_Witness ==
    /\ req.op = "update" /\ resp.status = 200
    /\ Has(Data, "title") /\ ~Has(Data, "star_rating")
    /\ games[req.id].title # pre.games[req.id].title
    /\ games[req.id].star_rating # Null
    /\ DOMAIN games \ {req.id} # {}

(* C4: every persisted Game has a title that is a string of trimmed length
   at least 2 and a description that is a string of trimmed length at
   least 10. *)
C4_FieldRules ==
    \A id \in DOMAIN games :
        /\ games[id].title.t = "str"
        /\ TrimmedLen(games[id].title) >= 2
        /\ games[id].description.t = "str"
        /\ TrimmedLen(games[id].description) >= 10

(* An Update supplied description as null and was refused. *)
C4_Witness ==
    /\ req.op = "update" /\ req.id \in DOMAIN pre.games /\ JsonBody
    /\ Has(Data, "description") /\ Val(Data, "description") = Null
    /\ ~Has(Data, "publisher_id") /\ ~Has(Data, "category_id")
    /\ ~Has(Data, "title")
    /\ resp.status = 400
    /\ games = pre.games

(* C5: a valid Create payload is answered 201, adds exactly one game, and
   the returned view holds the submitted title, description and
   star_rating (null when omitted) and the {id, name} of the publisher and
   category rows that the submitted ids denote. *)
C5_ValidPayload ==
    /\ req.op = "create" /\ JsonBody
    /\ \A f \in {"title", "description", "category_id", "publisher_id"} :
          Has(Data, f) /\ Val(Data, f) # Null
    /\ Exists(pre.publishers, Val(Data, "publisher_id"))
    /\ Exists(pre.categories, Val(Data, "category_id"))
    /\ Val(Data, "title").t = "str" /\ TrimmedLen(Val(Data, "title")) >= 2
    /\ Val(Data, "description").t = "str"
    /\ TrimmedLen(Val(Data, "description")) >= 10

C5_CreateView ==
    C5_ValidPayload =>
        /\ resp.status = 201
        /\ resp.view.id \notin DOMAIN pre.games
        /\ DOMAIN games = DOMAIN pre.games \cup {resp.view.id}
        /\ \A other \in DOMAIN pre.games : games[other] = pre.games[other]
        /\ resp.view.title = Val(Data, "title")
        /\ resp.view.description = Val(Data, "description")
        /\ resp.view.starRating =
              (IF Has(Data, "star_rating") THEN Val(Data, "star_rating")
               ELSE Null)
        /\ resp.view.publisher =
              [id |-> Val(Data, "publisher_id").n,
               name |-> pre.publishers[Val(Data, "publisher_id").n].name]
        /\ resp.view.category =
              [id |-> Val(Data, "category_id").n,
               name |-> pre.categories[Val(Data, "category_id").n].name]

(* A valid Create with a star_rating was answered 201. *)
C5_Witness ==
    /\ C5_ValidPayload
    /\ Has(Data, "star_rating") /\ Val(Data, "star_rating") = Num(45)
    /\ resp.status = 201
    /\ resp.view.starRating = Num(45)
    /\ resp.view.publisher.name = "DevGames Inc"

(* The ids of the views in a List response *)
ListedIds(response) == {response.data[i].id : i \in 1..Len(response.data)}

(* Get(id) answers NotFound and no List response holds id *)
NotServed(gs, ps, cs, id) ==
    /\ get_game(gs, ps, cs, id).status = 404
    /\ get_game(gs, ps, cs, id).error = Error("Game not found")
    /\ \A page \in Pages, per_page \in PerPages :
          id \notin ListedIds(get_games(gs, ps, cs, page, per_page))

DeleteOfAbsent ==
    (req.op = "delete" /\ req.id \notin DOMAIN pre.games) =>
        /\ resp.status = 404
        /\ resp.error = Error("Game not found")
        /\ games = pre.games

(* C6, as stated: after a successful Delete(id), every subsequent Get(id)
   returns NotFound and no subsequent List response contains id; a Delete
   of an id that is not in the store returns NotFound and changes
   nothing. *)
C6_Original ==
    /\ \A id \in deleted : NotServed(games, publishers, categories, id)
    /\ DeleteOfAbsent

(* C6, amended: a successful Delete(id) removes the game; from then on
   Get(id) returns NotFound and no List response contains id for as long
   as id is not in the store, and only a successful Create that is given
   this id puts it back; a Delete of an id that is not in the store returns
   NotFound and changes nothing. *)
C6_DeletedUntilCreatedAgain ==
    [][/\ (req'.op = "delete" /\ resp'.status = 200) =>
             /\ req'.id \in deleted'
             /\ req'.id \notin DOMAIN games'
       /\ \A id \in deleted' :
             \/ id \in DOMAIN games'
             \/ NotServed(games', publishers', categories', id)
       /\ \A id \in deleted :
             (id \notin DOMAIN games /\ id \in DOMAIN games') =>
                 /\ req'.op = "create"
                 /\ resp'.status = 201
                 /\ resp'.view.id = id
       /\ DeleteOfAbsent']_vars

(* A Get of a deleted id was answered NotFound, with other games still in
   the store. *)
C6_Witness ==
    /\ req.op = "get" /\ req.id \in deleted
    /\ resp.status = 404
    /\ games # <<>>

(* The position of a key in a payload *)
Pos(data, key) == CHOOSE i \in 1..Len(data) : data[i].k = key

Range(seq) == {seq[i] : i \in 1..Len(seq)}

Missing(data) ==
    {f \in {"title", "description", "category_id", "publisher_id"} :
        ~Has(data, f) \/ Val(data, f) = Null}

C7_Rejected ==
    /\ resp.status = 400
    /\ resp.error.text = "Missing required fields"
    /\ Range(resp.error.fields) = Missing(Data)
    /\ Len(resp.error.fields) = Cardinality(Missing(Data))
    /\ "resolve" \notin Range(events)
    /\ "validate" \notin Range(events)
    /\ games = pre.games

(* C7, as stated: a Create whose non-empty JSON payload lacks a required
   field, or holds null for it, is answered 400 with a message that names
   all the missing fields in payload order, before any lookup or field
   validation and without adding a game. *)
C7_Original ==
    (req.op = "create" /\ JsonBody /\ Missing(Data) # {}) =>
        /\ C7_Rejected
        /\ \A i, j \in 1..Len(resp.error.fields) :
              (/\ i < j
               /\ Has(Data, resp.error.fields[i])
               /\ Has(Data, resp.error.fields[j]))
              => Pos(Data, resp.error.fields[i])
                     < Pos(Data, resp.error.fields[j])

(* C7, amended: the message names the missing fields in the fixed order
   title, description, category_id, publisher_id, whatever the order of
   the payload's members. *)
C7_MissingFieldsInFixedOrder ==
    (req.op = "create" /\ JsonBody /\ Missing(Data) # {}) =>
        /\ C7_Rejected
        /\ resp.error.fields =
              SelectSeq(<<"title", "description", "category_id",
                          "publisher_id">>,
                        LAMBDA f : f \in Missing(Data))

(* A Create whose payload holds a null publisher_id ahead of a null title
   was answered with title named first. *)
C7_Witness ==
    /\ req.op = "create" /\ JsonBody
    /\ resp.error.fields = <<"title", "publisher_id">>
    /\ Has(Data, "title") /\ Has(Data, "publisher_id")
    /\ Pos(Data, "publisher_id") < Pos(Data, "title")

(* An id that denotes no row of the table *)
Unknown(table, ident) == ident.t = "num" /\ ident.n \notin DOMAIN table

C8_BothUnknown ==
    /\ JsonBody
    /\ Has(Data, "publisher_id") /\ Has(Data, "category_id")
    /\ Unknown(pre.publishers, Val(Data, "publisher_id"))
    /\ Unknown(pre.categories, Val(Data, "category_id"))

C8_CategoryOnly ==
    (Mutation /\ resp.error = Error("Category not found")) =>
        /\ resp.status = 404
        /\ Has(Data, "publisher_id") =>
              Exists(pre.publishers, Val(Data, "publisher_id"))
        /\ Has(Data, "category_id")
        /\ ~Exists(pre.categories, Val(Data, "category_id"))

(* C8, as stated: a Create, or an Update on an existing game, whose payload
   carries both a nonexistent publisher_id and a nonexistent category_id is
   answered 404 'Publisher not found'; 'Category not found' is answered
   only when the supplied publisher_id (if any) exists and the category_id
   does not. *)
C8_Original ==
    /\ (/\ \/ req.op = "create"
           \/ req.op = "update" /\ req.id \in DOMAIN pre.games
        /\ C8_BothUnknown)
       => (resp.status = 404 /\ resp.error = Error("Publisher not found"))
    /\ C8_CategoryOnly

(* C8, amended: the Create is one whose payload holds all four required
   fields (a Create that lacks one is answered 400 before any lookup). *)
C8_PublisherBeforeCategory ==
    /\ (/\ \/ req.op = "create" /\ Missing(Data) = {}
           \/ req.op = "update" /\ req.id \in DOMAIN pre.games
        /\ C8_BothUnknown)
       => (resp.status = 404 /\ resp.error = Error("Publisher not found"))
    /\ C8_CategoryOnly

(* An Update of an existing game with both ids unknown was answered
   'Publisher not found'. *)
C8_Witness ==
    /\ req.op = "update" /\ req.id \in DOMAIN pre.games
    /\ C8_BothUnknown
    /\ Val(Data, "publisher_id") = Num(9)
    /\ resp.error = Error("Publisher not found")

(* A field rule was violated: the Field Validator raised *)
ValidationFailed == Mutation /\ resp.status = 400 /\ resp.error.field # ""

(* A reference did not resolve *)
ResolutionFailed ==
    /\ Mutation
    /\ resp.error \in {Error("Publisher not found"),
                       Error("Category not found")}

Persisting == {"add", "delete", "commit"}

Before(first, then) ==
    \A i, j \in 1..Len(events) :
        (events[i] \in then /\ events[j] \in first) => j < i

NeverPersisted ==
    /\ Range(events) \cap Persisting = {}
    /\ games = pre.games

(* C9, as stated: a request that fails in field validation or in reference
   resolution never reaches the persisting step; the steps follow Pending,
   Validating, Resolving-References, Persisting, then Committed or
   RolledBack; no commit is executed on a request that failed validation
   or resolution, and every such request ends in RolledBack. *)
C9_Original ==
    /\ (ValidationFailed \/ ResolutionFailed) => NeverPersisted
    /\ Before({"validate"}, {"resolve"})
    /\ Before({"validate", "resolve"}, Persisting)

(* C9, amended: a request that fails in field validation or in reference
   resolution never reaches the persisting step and executes no commit,
   and the store is unchanged; the steps follow Pending,
   Resolving-References, Validating, Persisting, then Committed or
   RolledBack: references are resolved before the fields are validated; a
   request that failed validation ends in a rollback call, a request that
   failed resolution returns with no commit and leaves its uncommitted
   transaction to be released at request end. *)
C9_FailureNeverPersists ==
    /\ (ValidationFailed \/ ResolutionFailed) => NeverPersisted
    /\ ValidationFailed =>
          /\ events[Len(events)] = "rollback"
          /\ session = pre.games
    /\ ResolutionFailed =>
          /\ "rollback" \notin Range(events)
          /\ "validate" \notin Range(events)
    /\ Before({"resolve"}, {"validate"})
    /\ Before({"validate", "resolve"}, Persisting)
    /\ (Mutation /\ resp.status \in {200, 201}) =>
          events[Len(events)] = "commit"

(* An Update resolved its publisher, assigned it, and then failed the
   title rule and was rolled back. *)
C9_Witness ==
    /\ req.op = "update" /\ ValidationFailed
    /\ Has(Data, "publisher_id")
    /\ events = <<"resolve", "assign", "validate", "rollback">>

ArgOr(arg, default) == IF arg.t = "num" THEN arg.n ELSE default

(* C10: List never errors on out-of-range pagination parameters: page < 1
   is reported as 1, per_page < 1 or > 100 as 20, values inside the ranges
   unchanged. *)
C10_PaginationDefaults ==
    req.op = "list" =>
        LET page == ArgOr(req.page, 1)
            per_page == ArgOr(req.per_page, 20)
        IN  /\ resp.status = 200
            /\ resp.page = (IF page < 1 THEN 1 ELSE page)
            /\ resp.per_page =
                  (IF per_page < 1 \/ per_page > 100 THEN 20 ELSE per_page)

(* A List with page=0 and per_page=101 was answered with page 1 and
   per_page 20. *)
C10_Witness ==
    /\ req.op = "list"
    /\ req.page = Num(0) /\ req.per_page = Num(101)
    /\ resp.status = 200 /\ resp.page = 1 /\ resp.per_page = 20

(* The least n with n * per_page >= total *)
Ceiling(total, per_page) ==
    CHOOSE n \in 0..total :
        /\ n * per_page >= total
        /\ n = 0 \/ (n - 1) * per_page < total

(* C11: for every List request, total is the number of persisted games and
   total_pages is ceil(total / per_page) for the effective per_page (0 when
   the store is empty); a page greater than total_pages is answered 200
   with an empty data list, the requested page number and the real total
   and total_pages. *)
C11_TotalsAndBeyondLastPage ==
    req.op = "list" =>
        /\ resp.status = 200
        /\ resp.total = Cardinality(DOMAIN games)
        /\ resp.total_pages = Ceiling(resp.total, resp.per_page)
        /\ games = <<>> => resp.total_pages = 0
        /\ (req.page.t = "num" /\ req.page.n > resp.total_pages
            /\ req.page.n >= 1) =>
              /\ resp.data = <<>>
              /\ resp.page = req.page.n

(* A List of a store of three games with per_page 2 asked for page 3, one
   beyond the last page. *)
C11_Witness ==
    /\ req.op = "list"
    /\ req.page = Num(3) /\ req.per_page = Num(2)
    /\ resp.total = 3 /\ resp.total_pages = 2
    /\ resp.data = <<>> /\ resp.page = 3


(* The response to a List of the present store for page p with per_page n *)
PageOf(p, n) == get_games(games, publishers, categories, Num(p), Num(n))

(* min(per_page, max(0, total - (p - 1) * per_page)) *)
PageSize(p, per_page, total) ==
    LET rest == total - (p - 1) * per_page
    IN  IF rest <= 0 THEN 0 ELSE IF rest < per_page THEN rest ELSE per_page

(* C17: for a fixed store and a fixed effective per_page, the data of page
   p holds exactly min(per_page, max(0, total - (p-1)*per_page)) games, two
   different pages never contain the same game, and the pages
   1..total_pages together contain every persisted game exactly once. *)
C17_PagesPartitionStore ==
    req.op = "list" =>
        LET n == resp.per_page
            total == Cardinality(DOMAIN games)
            pages == 1..(resp.total_pages + 1)
        IN  /\ Len(resp.data) = PageSize(resp.page, n, total)
            /\ \A p \in pages :
                  /\ Len(PageOf(p, n).data) = PageSize(p, n, total)
                  /\ Cardinality(ListedIds(PageOf(p, n))) =
                        Len(PageOf(p, n).data)
            /\ \A p, q \in pages :
                  p # q =>
                     ListedIds(PageOf(p, n)) \cap ListedIds(PageOf(q, n)) = {}
            /\ UNION {ListedIds(PageOf(p, n)) : p \in 1..resp.total_pages}
                  = DOMAIN games
            /\ resp.data = PageOf(resp.page, n).data

(* The second of two pages of a store of three games was listed with
   per_page 2: it holds the one remaining game. *)
C17_Witness ==
    /\ req.op = "list"
    /\ req.page = Num(2) /\ req.per_page = Num(2)
    /\ Cardinality(DOMAIN games) = 3
    /\ Len(resp.data) = 1
    /\ ListedIds(resp) \cap ListedIds(PageOf(1, 2)) = {}


(* The length of s without its leading and trailing whitespace, counted
   from the first to the last character that is not whitespace *)
Inked(s) == {i \in 1..Len(s) : s[i] \notin Whitespace}

TrimmedLength(s) ==
    IF Inked(s) = {} THEN 0 ELSE Max(Inked(s)) - Min(Inked(s)) + 1

(* C12: validate_string_length decides in this order: a null value returns
   null when allow_none and otherwise fails with '<field_name> cannot be
   empty'; a non-string value fails with '<field_name> must be a string'; a
   string whose trimmed length is below min_length fails with '<field_name>
   must be at least <min_length> characters'; every other value is returned
   unchanged, not trimmed. *)
C12_DecisionOrder ==
    call.done =>
        LET v == call.value
            r == call.result
        IN  IF v = Null
            THEN IF call.allow_none
                 THEN r.ok /\ r.value = Null
                 ELSE /\ ~r.ok
                      /\ r.error.field = call.field_name
                      /\ r.error.text = "cannot be empty"
            ELSE IF v.t # "str"
            THEN /\ ~r.ok
                 /\ r.error.field = call.field_name
                 /\ r.error.text = "must be a string"
            ELSE IF TrimmedLength(v.s) < call.min_length
            THEN /\ ~r.ok
                 /\ r.error.field = call.field_name
                 /\ r.error.text = "must be at least"
                 /\ r.error.min = call.min_length
            ELSE r.ok /\ r.value = v

(* A string with whitespace around it passed on its trimmed length and was
   returned with the whitespace. *)
C12_Witness ==
    /\ call.done
    /\ call.value = Str(<<" ", "a", " ">>) /\ call.min_length = 1
    /\ call.result.ok /\ call.result.value = Str(<<" ", "a", " ">>)


(* A Create whose payload is complete, whose references exist and whose
   description is valid, with a string for its title *)
C13_OnlyTitleInQuestion ==
    /\ req.op = "create" /\ JsonBody /\ Missing(Data) = {}
    /\ Exists(pre.publishers, Val(Data, "publisher_id"))
    /\ Exists(pre.categories, Val(Data, "category_id"))
    /\ Val(Data, "description").t = "str"
    /\ TrimmedLength(Val(Data, "description").s) >= 10
    /\ Val(Data, "title").t = "str"

(* C13: with existing publisher and category and a valid description, a
   Create whose title has length 1 is answered 400 with a message
   containing 'must be at least' and adds no game, while a Create whose
   title has length 2 succeeds with 201; the boundary is decided on the
   trimmed length of the title. *)
C13_TitleBoundary ==
    C13_OnlyTitleInQuestion =>
        /\ TrimmedLength(Val(Data, "title").s) = 1 =>
              /\ resp.status = 400
              /\ resp.error.field = "Game title"
              /\ resp.error.text = "must be at least"
              /\ games = pre.games
        /\ TrimmedLength(Val(Data, "title").s) = 2 =>
              /\ resp.status = 201
              /\ DOMAIN games = DOMAIN pre.games \cup {resp.view.id}
              /\ resp.view.id \notin DOMAIN pre.games
              /\ games[resp.view.id].title = Val(Data, "title")

(* A Create whose title is one letter between two spaces, three
   characters in all, was refused. *)
C13_Witness ==
    /\ C13_OnlyTitleInQuestion
    /\ Val(Data, "title") = PaddedTitle
    /\ resp.status = 400 /\ resp.error.text = "must be at least"
    /\ games = pre.games


(* C14: a successful Delete(id) removes exactly the game id: the sets of
   Publisher and Category rows and every field of them are unchanged, and
   every other game is unchanged. *)
C14_DeleteFrame ==
    (req.op = "delete" /\ resp.status = 200) =>
        /\ req.id \in DOMAIN pre.games
        /\ DOMAIN games = DOMAIN pre.games \ {req.id}
        /\ \A other \in DOMAIN games : games[other] = pre.games[other]
        /\ publishers = pre.publishers
        /\ categories = pre.categories

(* A game was deleted while another game of the same publisher and
   category stayed in the store. *)
C14_Witness ==
    /\ req.op = "delete" /\ resp.status = 200
    /\ \E other \in DOMAIN games :
          /\ games[other].publisher_id = pre.games[req.id].publisher_id
          /\ games[other].category_id = pre.games[req.id].category_id
    /\ Exists(publishers, pre.games[req.id].publisher_id)


(* C16: an Update on an id that is not in the store is answered 404 'Game
   not found' whatever the request body is, including a body that is not
   JSON, is empty, or holds invalid references or field values; the
   game-existence check precedes every other check of Update. *)
C16_GameCheckedFirst ==
    (req.op = "update" /\ req.id \notin DOMAIN pre.games) =>
        /\ resp.status = 404
        /\ resp.error = Error("Game not found")
        /\ events = <<>>
        /\ games = pre.games

(* An Update of an absent game carried no JSON content type and was
   answered 'Game not found'. *)
C16_Witness ==
    /\ req.op = "update" /\ req.id \notin DOMAIN pre.games
    /\ req.body.kind = "nocontenttype"
    /\ resp.status = 404 /\ resp.error = Error("Game not found")


(* The payload names a publisher or a category that does not exist *)
C15_UnknownReference ==
    \/ Has(Data, "publisher_id")
       /\ Unknown(pre.publishers, Val(Data, "publisher_id"))
    \/ Has(Data, "category_id")
       /\ Unknown(pre.categories, Val(Data, "category_id"))

(* The payload holds a title or a description that breaks the field rules *)
C15_InvalidField ==
    \/ Has(Data, "title")
       /\ (Val(Data, "title").t # "str"
           \/ TrimmedLength(Val(Data, "title").s) < 2)
    \/ Has(Data, "description")
       /\ Val(Data, "description").t = "str"
       /\ TrimmedLength(Val(Data, "description").s) < 10

C15_ReferenceNotFound ==
    /\ resp.status = 404
    /\ resp.error \in {Error("Publisher not found"),
                       Error("Category not found")}
    /\ "validate" \notin Range(events)

(* C15, as stated: in Create and in Update, a request that carries both a
   nonexistent publisher_id or category_id and a title or description that
   violates the field rules is answered NotFound (404) for the reference,
   never a ValidationError (400). *)
C15_Original ==
    (/\ req.op \in {"create", "update"} /\ JsonBody
     /\ C15_UnknownReference /\ C15_InvalidField)
        => C15_ReferenceNotFound

(* C15, amended: a Create whose payload holds all four required fields, or
   an Update of an existing game, that carries both a nonexistent
   publisher_id or category_id and a title or description that violates
   the field rules is answered NotFound (404) for the reference, before any
   field validation has run. *)
C15_ResolutionBeforeValidation ==
    (/\ \/ req.op = "create" /\ Missing(Data) = {}
        \/ req.op = "update" /\ req.id \in DOMAIN pre.games
     /\ JsonBody
     /\ C15_UnknownReference /\ C15_InvalidField)
        => C15_ReferenceNotFound

(* A complete Create with a known publisher, an unknown category and a
   one-letter title was answered 'Category not found'. *)
C15_Witness ==
    /\ req.op = "create" /\ JsonBody /\ Missing(Data) = {}
    /\ Val(Data, "title") = ShortTitle
    /\ Exists(pre.publishers, Val(Data, "publisher_id"))
    /\ Unknown(pre.categories, Val(Data, "category_id"))
    /\ resp.status = 404 /\ resp.error = Error("Category not found")


(* A worker whose Create or Update wrote to the store and has answered *)
CommittedAndAnswered(p) ==
    /\ txn[p].op \in {"create", "update"}
    /\ txn[p].pc = "done"
    /\ txn[p].own # NoView

(* C18: when requests run concurrently, a Create or Update that has
   committed always answers success (201 / 200) with a view of the state
   that this request committed: the re-read after the commit does not
   observe another request's later Update or Delete of the same game, so it
   never returns values the request did not write and never turns a
   committed write into a 500 answer. *)
C18_Original ==
    \A p \in Procs :
        CommittedAndAnswered(p) =>
            /\ txn[p].resp.status =
                  (IF txn[p].op = "create" THEN 201 ELSE 200)
            /\ txn[p].resp.view = txn[p].own

(* The store after request t has been served alone on store gs *)
ServedAlone(gs, t) ==
    IF t.op = "update"
    THEN update_game(gs, publishers, categories, t.id, t.body).games
    ELSE delete_game(gs, t.id).games

(* Two workers have answered an Update or a Delete of the same game *)
BothAnsweredOnOneGame ==
    /\ \A p \in Procs :
          txn[p].pc = "done" /\ txn[p].op \in {"update", "delete"}
    /\ txn[1].id = txn[2].id
    /\ txn[1].id \in DOMAIN pre.games

(* C19: for every interleaving of two concurrent requests (Update/Update,
   Update/Delete or Delete/Delete) on the same game, the final persisted
   store equals the store produced by running the two requests one after
   the other in some order; no update is lost and a deleted game is never
   written back. *)
C19_Original ==
    BothAnsweredOnOneGame =>
        \/ games = ServedAlone(ServedAlone(pre.games, txn[1]), txn[2])
        \/ games = ServedAlone(ServedAlone(pre.games, txn[2]), txn[1])


====
